---- MODULE Spec2Model ----
(***************************************************************************)
(* Bilevel aggregator: BilevelSet / BilevelMap in the three ownership      *)
(* variants copy, hybrid and borrow.  A collection of every variant is     *)
(* built twice, once by new() and once by with_capacity(cap), and all of   *)
(* them are fed the same calls, as test_set / test_map do; the scalar      *)
(* collections are fed along with them.  A caller of text::BilevelSet,     *)
(* which rests on core::BilevelSet, is modelled on its own.                *)
(***************************************************************************)
EXTENDS Integers, Sequences, FiniteSets, TLC

\* ---------------------------------------------------------------- bounds
MaxG == 2
MaxK == 2
MaxCalls == 3
HashMod == 1

\* ------------------------------------------------------ program constants
DefaultPerGroup == 4
DefaultV == 0

GKeys == 1..MaxG
AKeys == 1..MaxK
Built == {"new", "cap"}

\* lib.rs Capacity: the size hints handed to with_capacity.  As in
\* test_set / test_map one value is used; its hints differ from each other
\* and from what new() sets, and a group can outgrow per_group.
Capacities ==
    { [groups |-> 2, per_group |-> 1, agg_keys |-> 3] }

\* lib.rs hash(): a deterministic hash with collisions.
hash(t) == t % HashMod

\* ------------------------------------------------------------- helpers
EmptyMap == [x \in {} |-> {}]

\* fault: HashMap::insert(g, v), which replaces the value g is bound to
OrInsertOverwrite(m, g, v) ==
    [x \in DOMAIN m \cup {g} |-> IF x = g THEN v ELSE m[x]]

\* std HashMap::entry(g).or_insert(v): the map with g bound to v if absent.
OrInsert(m, g, v) ==
    IF g \in DOMAIN m THEN m
    ELSE [x \in DOMAIN m \cup {g} |-> IF x = g THEN v ELSE m[x]]

\* self.keys[i], with the code's 0-based index
KeyAt(keys, i) == keys[i + 1]

\* fault: the hash alone decides, the keys are not compared
KeyEqAlways(k, stored) == TRUE

\* the closure |&i| k.eq(&self.keys[i])
KeyEq(k, stored) == k = stored

\* fault: the lookup never hits, every call allocates a slot
KeyTableFindNothing(keys, key_table, k) == {}

\* hashbrown HashTable::entry(hash, eq, hasher) on the key table: the
\* occupied slots whose element has this hash and compares equal.
KeyTableFind(keys, key_table, k) ==
    { i \in { key_table[n] : n \in DOMAIN key_table } :
          hash(KeyAt(keys, i)) = hash(k) /\ KeyEq(k, KeyAt(keys, i)) }

\* fault: the new key goes to the front and shifts the others
KeysPushFront(keys, k) == <<k>> \o keys

\* self.keys.push(k.to_owned())
KeysPush(keys, k) == Append(keys, k)

\* fault: the index is read after the push
NewIndexAfterPush(keys) == Len(keys) + 1

\* let i = self.keys.len(), read before the push
NewIndex(keys) == Len(keys)

\* fault: the index is put into the table on a hit as well
KeyTableInsertAlways(key_table, found, i) == Append(key_table, i)

\* Entry::or_insert_with on the key table: an occupied entry is left as it
\* is, a vacant one receives the index the closure returns
KeyTableInsert(key_table, found, i) ==
    IF found # {} THEN key_table ELSE Append(key_table, i)

\* fault: the owned key is built before the lookup, at every call
KeyClonesEager(found) == 1

\* the k.to_owned() calls of one key resolution: the closure of
\* or_insert_with runs on a vacant entry only
KeyClones(found) == IF found # {} THEN 0 ELSE 1

\* fault: the owned group key is built before the lookup, at every call
GroupClonesEager(gfound) == 1

\* the g.to_owned() calls of one group lookup: the closure of
\* or_insert_with runs on a vacant entry only
GroupClones(gfound) == IF gfound # {} THEN 0 ELSE 1

\* fault: or_insert(V::default()), the default built at every call
DefaultCallsEager(m, i) == 1

\* the calls of the default producer by entry(i).or_insert_with(..) on the
\* inner map m
DefaultCalls(m, i) == IF i \in DOMAIN m THEN 0 ELSE 1

\* Besides the fields of the structs, a collection carries the hints its
\* tables were built with (data_cap, keys_cap, groups_cap, key_table_cap)
\* and counters of the calls it has made so far: k_clones counts
\* k.to_owned(), g_clones counts g.to_owned(), defaults counts the default
\* producer.  key_table is the sequence of the indices put into the table.

\* ------------------------------------------------------------ copy::set
CopySetNew == [data |-> EmptyMap, per_group |-> DefaultPerGroup, data_cap |-> 0]

CopySetWithCapacity(groups, per_group) ==
    [data |-> EmptyMap, per_group |-> per_group, data_cap |-> groups]

CopySetInsert(s, g, k) ==
    LET d1 == OrInsert(s.data, g, {})
    IN  [set |-> [s EXCEPT !.data = [d1 EXCEPT ![g] = @ \cup {k}]],
         ret |-> k \notin d1[g]]

\* the pairs data holds
CopySetPairs(s) == UNION { { <<g, k>> : k \in s.data[g] } : g \in DOMAIN s.data }

\* ---------------------------------------------------------- hybrid::set
HybridSetNew ==
    [per_group |-> DefaultPerGroup, keys |-> <<>>, groups |-> EmptyMap,
     key_table |-> <<>>, k_clones |-> 0,
     keys_cap |-> 0, groups_cap |-> 0, key_table_cap |-> 0]

HybridSetWithCapacity(capacity) ==
    [per_group |-> capacity.per_group, keys |-> <<>>, groups |-> EmptyMap,
     key_table |-> <<>>, k_clones |-> 0, keys_cap |-> capacity.agg_keys,
     groups_cap |-> capacity.groups, key_table_cap |-> capacity.agg_keys]

\* fault: reports whether the key, not the pair, is new
HybridSetInsertNewKey(s, g, k) ==
    LET found == KeyTableFind(s.keys, s.key_table, k)
        i     == IF found # {} THEN CHOOSE x \in found : TRUE ELSE NewIndex(s.keys)
        keys1 == IF found # {} THEN s.keys ELSE KeysPush(s.keys, k)
        g1    == OrInsert(s.groups, g, {})
    IN  [set |-> [s EXCEPT !.keys = keys1,
                           !.key_table = KeyTableInsert(@, found, i),
                           !.k_clones = @ + KeyClones(found),
                           !.groups = [g1 EXCEPT ![g] = @ \cup {i}]],
         ret |-> found = {}]

HybridSetInsert(s, g, k) ==
    LET found == KeyTableFind(s.keys, s.key_table, k)
        i     == IF found # {} THEN CHOOSE x \in found : TRUE ELSE NewIndex(s.keys)
        keys1 == IF found # {} THEN s.keys ELSE KeysPush(s.keys, k)
        g1    == OrInsert(s.groups, g, {})
    IN  [set |-> [s EXCEPT !.keys = keys1,
                           !.key_table = KeyTableInsert(@, found, i),
                           !.k_clones = @ + KeyClones(found),
                           !.groups = [g1 EXCEPT ![g] = @ \cup {i}]],
         ret |-> i \notin g1[g]]

\* the pairs groups and keys hold
HybridSetPairs(s) ==
    UNION { { <<g, KeyAt(s.keys, i)>> : i \in s.groups[g] } : g \in DOMAIN s.groups }

\* ---------------------------------------------------------- borrow::set
\* groups is a HashTable of (G, HashSet<usize>) entries: a set of tuples.
BorrowSetNew ==
    [per_group |-> DefaultPerGroup, keys |-> <<>>, groups |-> {},
     key_table |-> <<>>, k_clones |-> 0, g_clones |-> 0,
     keys_cap |-> 0, groups_cap |-> 0, key_table_cap |-> 0]

BorrowSetWithCapacity(capacity) ==
    [per_group |-> capacity.per_group, keys |-> <<>>, groups |-> {},
     key_table |-> <<>>, k_clones |-> 0, g_clones |-> 0, keys_cap |-> capacity.agg_keys,
     groups_cap |-> capacity.groups, key_table_cap |-> capacity.agg_keys]

\* groups.entry(hash(g), |(o, _)| g.eq(o), |(o, _)| hash(o))
GroupFind(groups, g) == { e \in groups : hash(e[1]) = hash(g) /\ g = e[1] }

\* fault: per_group taken as a limit on the size of a group
BorrowSetInsertBounded(s, g, k) ==
    LET found  == KeyTableFind(s.keys, s.key_table, k)
        i      == IF found # {} THEN CHOOSE x \in found : TRUE ELSE NewIndex(s.keys)
        keys1  == IF found # {} THEN s.keys ELSE KeysPush(s.keys, k)
        gfound == GroupFind(s.groups, g)
        e      == IF gfound # {} THEN CHOOSE x \in gfound : TRUE ELSE <<g, {}>>
        room   == Cardinality(e[2]) < s.per_group
    IN  [set |-> [s EXCEPT !.keys = keys1,
                           !.key_table = KeyTableInsert(@, found, i),
                           !.k_clones = @ + KeyClones(found),
                           !.g_clones = @ + GroupClones(gfound),
                           !.groups = (@ \ {e}) \cup
                                      {<<e[1], IF room THEN e[2] \cup {i} ELSE e[2]>>}],
         ret |-> room /\ i \notin e[2]]

BorrowSetInsert(s, g, k) ==
    LET found  == KeyTableFind(s.keys, s.key_table, k)
        i      == IF found # {} THEN CHOOSE x \in found : TRUE ELSE NewIndex(s.keys)
        keys1  == IF found # {} THEN s.keys ELSE KeysPush(s.keys, k)
        gfound == GroupFind(s.groups, g)
        e      == IF gfound # {} THEN CHOOSE x \in gfound : TRUE ELSE <<g, {}>>
    IN  [set |-> [s EXCEPT !.keys = keys1,
                           !.key_table = KeyTableInsert(@, found, i),
                           !.k_clones = @ + KeyClones(found),
                           !.g_clones = @ + GroupClones(gfound),
                           !.groups = (@ \ {e}) \cup {<<e[1], e[2] \cup {i}>>}],
         ret |-> i \notin e[2]]

\* the pairs groups and keys hold
BorrowSetPairs(s) ==
    UNION { { <<e[1], KeyAt(s.keys, i)>> : i \in e[2] } : e \in s.groups }

\* ------------------------------------------------------------ copy::map
\* data: G -> (K -> V).  A handle (&mut V) is the place <<g, k>> it points to.
CopyMapNew == [data |-> EmptyMap, per_group |-> DefaultPerGroup, data_cap |-> 0, defaults |-> 0]

CopyMapWithCapacity(groups, per_group) ==
    [data |-> EmptyMap, per_group |-> per_group, data_cap |-> groups, defaults |-> 0]

CopyMapAddOrGet(s, g, k) ==
    LET d1 == OrInsert(s.data, g, EmptyMap)
    IN  [map |-> [s EXCEPT !.data = [d1 EXCEPT ![g] = OrInsert(@, k, DefaultV)],
                           !.defaults = @ + DefaultCalls(d1[g], k)],
         handle |-> <<g, k>>]

CopyMapDeref(s, h) == s.data[h[1]][h[2]]
CopyMapStore(s, h, v) == [s EXCEPT !.data[h[1]][h[2]] = v]

\* the (g, k, v) triples data holds
CopyMapTriples(s) ==
    UNION { { <<g, k, s.data[g][k]>> : k \in DOMAIN s.data[g] } : g \in DOMAIN s.data }

\* ---------------------------------------------------------- hybrid::map
\* groups: G -> (usize -> V).  A handle is the place <<g, i>>.
HybridMapNew ==
    [per_group |-> DefaultPerGroup, keys |-> <<>>, groups |-> EmptyMap,
     key_table |-> <<>>, k_clones |-> 0, defaults |-> 0,
     keys_cap |-> 0, groups_cap |-> 0, key_table_cap |-> 0]

HybridMapWithCapacity(capacity) ==
    [per_group |-> capacity.per_group, keys |-> <<>>, groups |-> EmptyMap,
     key_table |-> <<>>, k_clones |-> 0, defaults |-> 0, keys_cap |-> capacity.agg_keys,
     groups_cap |-> capacity.groups, key_table_cap |-> capacity.agg_keys]

\* fault: insert(i, V::default()) in place of entry(i).or_insert_with
HybridMapAddOrGetFresh(s, g, k) ==
    LET found == KeyTableFind(s.keys, s.key_table, k)
        i     == IF found # {} THEN CHOOSE x \in found : TRUE ELSE NewIndex(s.keys)
        keys1 == IF found # {} THEN s.keys ELSE KeysPush(s.keys, k)
        g1    == OrInsert(s.groups, g, EmptyMap)
    IN  [map |-> [s EXCEPT !.keys = keys1,
                           !.key_table = KeyTableInsert(@, found, i),
                           !.k_clones = @ + KeyClones(found),
                           !.groups = [g1 EXCEPT ![g] =
                               [x \in DOMAIN @ \cup {i} |-> IF x = i THEN DefaultV ELSE @[x]]],
                           !.defaults = @ + 1],
         handle |-> <<g, i>>]

HybridMapAddOrGet(s, g, k) ==
    LET found == KeyTableFind(s.keys, s.key_table, k)
        i     == IF found # {} THEN CHOOSE x \in found : TRUE ELSE NewIndex(s.keys)
        keys1 == IF found # {} THEN s.keys ELSE KeysPush(s.keys, k)
        g1    == OrInsert(s.groups, g, EmptyMap)
    IN  [map |-> [s EXCEPT !.keys = keys1,
                           !.key_table = KeyTableInsert(@, found, i),
                           !.k_clones = @ + KeyClones(found),
                           !.groups = [g1 EXCEPT ![g] = OrInsert(@, i, DefaultV)],
                           !.defaults = @ + DefaultCalls(g1[g], i)],
         handle |-> <<g, i>>]

\* fault: the handle is resolved by the key index alone, so the payload of
\* that index is written in every group that has it
HybridMapStoreByIndex(s, h, v) ==
    [s EXCEPT !.groups = [g \in DOMAIN @ |->
                             [x \in DOMAIN @[g] |-> IF x = h[2] THEN v ELSE @[g][x]]]]

HybridMapDeref(s, h) == s.groups[h[1]][h[2]]
HybridMapStore(s, h, v) == [s EXCEPT !.groups[h[1]][h[2]] = v]

HybridMapTriples(s) ==
    UNION { { <<g, KeyAt(s.keys, i), s.groups[g][i]>> : i \in DOMAIN s.groups[g] }
            : g \in DOMAIN s.groups }

\* ---------------------------------------------------------- borrow::map
\* groups is a HashTable of (G, HashMap<usize, V>) entries: a set of tuples.
\* A handle is the place <<g, i>> inside the entry of g.
BorrowMapNew ==
    [per_group |-> DefaultPerGroup, keys |-> <<>>, groups |-> {},
     key_table |-> <<>>, k_clones |-> 0, g_clones |-> 0, defaults |-> 0,
     keys_cap |-> 0, groups_cap |-> 0, key_table_cap |-> 0]

BorrowMapWithCapacity(capacity) ==
    [per_group |-> capacity.per_group, keys |-> <<>>, groups |-> {},
     key_table |-> <<>>, k_clones |-> 0, g_clones |-> 0, defaults |-> 0,
     keys_cap |-> capacity.agg_keys,
     groups_cap |-> capacity.groups, key_table_cap |-> capacity.agg_keys]

\* fault: insert(i, V::default()) in place of entry(i).or_insert_with
BorrowMapAddOrGetFresh(s, g, k) ==
    LET found  == KeyTableFind(s.keys, s.key_table, k)
        i      == IF found # {} THEN CHOOSE x \in found : TRUE ELSE NewIndex(s.keys)
        keys1  == IF found # {} THEN s.keys ELSE KeysPush(s.keys, k)
        gfound == GroupFind(s.groups, g)
        e      == IF gfound # {} THEN CHOOSE x \in gfound : TRUE ELSE <<g, EmptyMap>>
        m      == [x \in DOMAIN e[2] \cup {i} |-> IF x = i THEN DefaultV ELSE e[2][x]]
    IN  [map |-> [s EXCEPT !.keys = keys1,
                           !.key_table = KeyTableInsert(@, found, i),
                           !.k_clones = @ + KeyClones(found),
                           !.g_clones = @ + GroupClones(gfound),
                           !.groups = (@ \ {e}) \cup {<<e[1], m>>},
                           !.defaults = @ + 1],
         handle |-> <<e[1], i>>]

BorrowMapAddOrGet(s, g, k) ==
    LET found  == KeyTableFind(s.keys, s.key_table, k)
        i      == IF found # {} THEN CHOOSE x \in found : TRUE ELSE NewIndex(s.keys)
        keys1  == IF found # {} THEN s.keys ELSE KeysPush(s.keys, k)
        gfound == GroupFind(s.groups, g)
        e      == IF gfound # {} THEN CHOOSE x \in gfound : TRUE ELSE <<g, EmptyMap>>
    IN  [map |-> [s EXCEPT !.keys = keys1,
                           !.key_table = KeyTableInsert(@, found, i),
                           !.k_clones = @ + KeyClones(found),
                           !.g_clones = @ + GroupClones(gfound),
                           !.groups = (@ \ {e}) \cup {<<e[1], OrInsert(e[2], i, DefaultV)>>},
                           !.defaults = @ + DefaultCalls(e[2], i)],
         handle |-> <<e[1], i>>]

BorrowMapDeref(s, h) ==
    LET e == CHOOSE x \in s.groups : x[1] = h[1] /\ h[2] \in DOMAIN x[2] IN e[2][h[2]]

BorrowMapStore(s, h, v) ==
    LET e == CHOOSE x \in s.groups : x[1] = h[1] /\ h[2] \in DOMAIN x[2]
    IN  [s EXCEPT !.groups = (@ \ {e}) \cup {<<e[1], [e[2] EXCEPT ![h[2]] = v]>>}]

BorrowMapTriples(s) ==
    UNION { { <<e[1], KeyAt(s.keys, i), e[2][i]>> : i \in DOMAIN e[2] } : e \in s.groups }

\* --------------------------------------------------------------- scalar
\* scalar.rs BilevelSet: data: G -> set of K
ScalarSetNew == [data |-> EmptyMap, per_group |-> DefaultPerGroup, data_cap |-> 0]

ScalarSetWithCapacity(groups, per_group) ==
    [data |-> EmptyMap, per_group |-> per_group, data_cap |-> groups]

\* self.data.entry(g).or_insert(HashSet::with_capacity(..)).insert(k):
\* what HashSet::insert returns, true when k was not in the group yet
ScalarSetInsert(s, g, k) ==
    LET d1 == OrInsert(s.data, g, {})
    IN  [set |-> [s EXCEPT !.data = [d1 EXCEPT ![g] = @ \cup {k}]],
         ret |-> k \notin d1[g]]

\* scalar.rs BilevelMap: data: G -> (K -> V); constructor is the value the
\* injected closure returns
ScalarMapNew(constructor) ==
    [data |-> EmptyMap, per_group |-> DefaultPerGroup, data_cap |-> 0,
     constructor |-> constructor, defaults |-> 0]

ScalarMapWithCapacity(groups, per_group, constructor) ==
    [data |-> EmptyMap, per_group |-> per_group, data_cap |-> groups,
     constructor |-> constructor, defaults |-> 0]

ScalarMapAddOrGet(s, g, k) ==
    LET d1 == OrInsert(s.data, g, EmptyMap)
    IN  [map |-> [s EXCEPT !.data = [d1 EXCEPT ![g] = OrInsert(@, k, s.constructor)],
                           !.defaults = @ + DefaultCalls(d1[g], k)],
         handle |-> <<g, k>>]

ScalarMapDeref(s, h) == s.data[h[1]][h[2]]
ScalarMapStore(s, h, v) == [s EXCEPT !.data[h[1]][h[2]] = v]

\* the (g, k, v) triples data holds
ScalarMapTriples(s) ==
    UNION { { <<g, k, s.data[g][k]>> : k \in DOMAIN s.data[g] } : g \in DOMAIN s.data }

\* ------------------------------------------------------- core and text
\* The outcome of a call is [panics |-> FALSE, value |-> v] when it returns v
\* and [panics |-> TRUE] when it unwinds.

\* core::BilevelSet::new: todo!()
CoreSetNew == [panics |-> TRUE]

\* core::BilevelSet::with_capacity: todo!()
CoreSetWithCapacity(capacity) == [panics |-> TRUE]

\* text::BilevelSet::new: Self { core: core::BilevelSet::new() }
TextSetNew ==
    LET inner == CoreSetNew
    IN  IF inner.panics THEN [panics |-> TRUE]
        ELSE [panics |-> FALSE, value |-> [core |-> inner.value]]

\* text::BilevelSet::with_capacity
TextSetWithCapacity(capacity) ==
    LET inner == CoreSetWithCapacity(capacity)
    IN  IF inner.panics THEN [panics |-> TRUE]
        ELSE [panics |-> FALSE, value |-> [core |-> inner.value]]

\* ------------------------------------------------------------ iteration
\* An iterator is [outer, inner]: outer the group entries <<g, elements>> the
\* outer iterator has not yielded yet, inner the current group with the
\* elements its iterator has not yielded yet ({} for None).  A hash table
\* yields its elements in an unspecified order: any remaining one is next.

NoIter == [outer |-> {}, inner |-> {}]

\* inner.iter() of a HashMap: its (key, value) elements
MapElems(m) == { <<x, m[x]>> : x \in DOMAIN m }

\* fault: None as soon as the current group is exhausted
FlatMapNextOneGroup(it) ==
    IF it.inner = {}
    THEN IF it.outer = {} THEN { [it |-> it, item |-> {}] }
         ELSE UNION { { [it |-> [outer |-> it.outer \ {e}, inner |-> {<<e[1], e[2] \ {x}>>}],
                         item |-> {<<e[1], x>>}] : x \in e[2] } : e \in it.outer }
    ELSE LET c == CHOOSE c \in it.inner : TRUE
         IN  IF c[2] = {} THEN { [it |-> it, item |-> {}] }
             ELSE { [it |-> [it EXCEPT !.inner = {<<c[1], c[2] \ {x}>>}],
                     item |-> {<<c[1], x>>}] : x \in c[2] }

\* std Iterator::flat_map(f).next(), f already applied to the entries
RECURSIVE FlatMapNext(_)
FlatMapNext(it) ==
    LET front == IF it.inner = {} THEN {} ELSE (CHOOSE c \in it.inner : TRUE)[2]
    IN  IF front # {}
        THEN LET c == CHOOSE c \in it.inner : TRUE
             IN  { [it |-> [it EXCEPT !.inner = {<<c[1], c[2] \ {x}>>}],
                    item |-> {<<c[1], x>>}] : x \in c[2] }
        ELSE IF it.outer = {}
             THEN { [it |-> [it EXCEPT !.inner = {}], item |-> {}] }
             ELSE UNION { FlatMapNext([outer |-> it.outer \ {e}, inner |-> {e}])
                          : e \in it.outer }

\* copy::set iter(): data.iter().flat_map(|(g, inner)| inner.iter().map(|k| (*g, *k)))
CopySetIter(s) == [outer |-> { <<g, s.data[g]>> : g \in DOMAIN s.data }, inner |-> {}]
CopySetIterNext(s, it) ==
    { [it |-> r.it, item |-> { <<x[1], x[2]>> : x \in r.item }] : r \in FlatMapNext(it) }

\* copy::set into_iter(): data.into_iter().flat_map(..), the iterator owns
\* the groups
CopySetIntoIter(s) == [outer |-> { <<g, s.data[g]>> : g \in DOMAIN s.data }, inner |-> {}]

\* copy::map iter(): ... inner.iter().map(|(k, v)| (*g, *k, v))
CopyMapIter(s) ==
    [outer |-> { <<g, MapElems(s.data[g])>> : g \in DOMAIN s.data }, inner |-> {}]
CopyMapIterNext(s, it) ==
    { [it |-> r.it, item |-> { <<x[1], x[2][1], x[2][2]>> : x \in r.item }]
      : r \in FlatMapNext(it) }

\* copy::map into_iter()
CopyMapIntoIter(s) ==
    [outer |-> { <<g, MapElems(s.data[g])>> : g \in DOMAIN s.data }, inner |-> {}]

\* hybrid::set iter(): ... inner.iter().map(|i| (*g, &self.keys[*i]))
HybridSetIter(s) == [outer |-> { <<g, s.groups[g]>> : g \in DOMAIN s.groups }, inner |-> {}]
HybridSetIterNext(s, it) ==
    { [it |-> r.it, item |-> { <<x[1], KeyAt(s.keys, x[2])>> : x \in r.item }]
      : r \in FlatMapNext(it) }

\* hybrid::map iter(): ... inner.iter().map(|(&i, v)| (*g, &self.keys[i], v))
HybridMapIter(s) ==
    [outer |-> { <<g, MapElems(s.groups[g])>> : g \in DOMAIN s.groups }, inner |-> {}]
HybridMapIterNext(s, it) ==
    { [it |-> r.it, item |-> { <<x[1], KeyAt(s.keys, x[2][1]), x[2][2]>> : x \in r.item }]
      : r \in FlatMapNext(it) }

\* borrow::set wrap_inner: (&inner.0, inner.1.iter())
BorrowSetWrapInner(e) == <<e[1], e[2]>>

\* borrow::set self.outer.next().map(wrap_inner), and what is left of outer
BorrowSetOuterNext(outer) ==
    IF outer = {} THEN { [outer |-> {}, inner |-> {}] }
    ELSE { [outer |-> outer \ {e}, inner |-> {BorrowSetWrapInner(e)}] : e \in outer }

\* fault: inner starts as None, the first group is never fetched
BorrowSetIterSkipFirst(s) == { [outer |-> s.groups, inner |-> {}] }

\* borrow::set Iter::new
BorrowSetIter(s) == BorrowSetOuterNext(s.groups)

\* fault: the next item is taken from any group that has items left
BorrowSetIterNextAnyGroup(s, it) ==
    LET pool == { e \in it.inner \cup it.outer : e[2] # {} }
    IN  IF pool = {} THEN { [it |-> NoIter, item |-> {}] }
        ELSE UNION { { [it |-> [outer |-> pool \ {e}, inner |-> {<<e[1], e[2] \ {i}>>}],
                        item |-> {<<e[1], KeyAt(s.keys, i)>>}] : i \in e[2] }
                     : e \in pool }

\* borrow::set Iter::next
RECURSIVE BorrowSetIterNext(_, _)
BorrowSetIterNext(s, it) ==
    IF it.inner # {}
    THEN LET inner == CHOOSE c \in it.inner : TRUE
         IN  IF inner[2] # {}
             THEN { [it |-> [it EXCEPT !.inner = {<<inner[1], inner[2] \ {i}>>}],
                     item |-> {<<inner[1], KeyAt(s.keys, i)>>}] : i \in inner[2] }
             ELSE UNION { BorrowSetIterNext(s, it2) : it2 \in BorrowSetOuterNext(it.outer) }
    ELSE { [it |-> it, item |-> {}] }

\* borrow::map wrap_inner
BorrowMapWrapInner(e) == <<e[1], MapElems(e[2])>>

BorrowMapOuterNext(outer) ==
    IF outer = {} THEN { [outer |-> {}, inner |-> {}] }
    ELSE { [outer |-> outer \ {e}, inner |-> {BorrowMapWrapInner(e)}] : e \in outer }

\* borrow::map Iter::new
BorrowMapIter(s) == BorrowMapOuterNext(s.groups)

\* borrow::map Iter::next
RECURSIVE BorrowMapIterNext(_, _)
BorrowMapIterNext(s, it) ==
    IF it.inner # {}
    THEN LET inner == CHOOSE c \in it.inner : TRUE
         IN  IF inner[2] # {}
             THEN { [it |-> [it EXCEPT !.inner = {<<inner[1], inner[2] \ {x}>>}],
                     item |-> {<<inner[1], KeyAt(s.keys, x[1]), x[2]>>}] : x \in inner[2] }
             ELSE UNION { BorrowMapIterNext(s, it2) : it2 \in BorrowMapOuterNext(it.outer) }
    ELSE { [it |-> it, item |-> {}] }

\* ---------------------------------------------------------------- pivot
\* for (g, k) in self.iter(): every sequence the loop can be handed
RECURSIVE CopySetCollect(_, _)
CopySetCollect(s, it) ==
    UNION { IF r.item = {} THEN { <<>> }
            ELSE { <<CHOOSE x \in r.item : TRUE>> \o t : t \in CopySetCollect(s, r.it) }
            : r \in CopySetIterNext(s, it) }

RECURSIVE BorrowSetCollect(_, _)
BorrowSetCollect(s, it) ==
    UNION { IF r.item = {} THEN { <<>> }
            ELSE { <<CHOOSE x \in r.item : TRUE>> \o t : t \in BorrowSetCollect(s, r.it) }
            : r \in BorrowSetIterNext(s, it) }

\* fault: the item is inserted as it is
PivotArgsUnswapped(item) == <<item[1], item[2]>>

\* pivoted.insert(k, g): the pair handed to insert for the item (g, k)
PivotArgs(item) == <<item[2], item[1]>>

\* fault: the loop is left after its first item
CopySetReplayOnce(pivoted, tr) ==
    IF tr = <<>> THEN pivoted
    ELSE CopySetInsert(pivoted, PivotArgs(Head(tr))[1], PivotArgs(Head(tr))[2]).set

RECURSIVE CopySetReplay(_, _)
CopySetReplay(pivoted, tr) ==
    IF tr = <<>> THEN pivoted
    ELSE CopySetReplay(
             CopySetInsert(pivoted, PivotArgs(Head(tr))[1], PivotArgs(Head(tr))[2]).set,
             Tail(tr))

\* copy::set pivot, the loop seeing the items in the order tr
CopySetPivot(s, tr) ==
    CopySetReplay(CopySetWithCapacity(Cardinality(DOMAIN s.data), s.per_group), tr)

RECURSIVE BorrowSetReplay(_, _)
BorrowSetReplay(pivoted, tr) ==
    IF tr = <<>> THEN pivoted
    ELSE BorrowSetReplay(
             BorrowSetInsert(pivoted, PivotArgs(Head(tr))[1], PivotArgs(Head(tr))[2]).set,
             Tail(tr))

\* fault: the hints are handed over as they are, not swapped
BorrowSetPivotUnswapped(s, tr) ==
    BorrowSetReplay(
        BorrowSetWithCapacity([groups    |-> Cardinality(s.groups),
                               agg_keys  |-> Len(s.keys),
                               per_group |-> s.per_group]),
        tr)

\* borrow::set pivot, the loop seeing the items in the order tr
BorrowSetPivot(s, tr) ==
    BorrowSetReplay(
        BorrowSetWithCapacity([groups    |-> Len(s.keys),
                               agg_keys  |-> Cardinality(s.groups),
                               per_group |-> s.per_group]),
        tr)

\* ---------------------------------------------------------------- state
Variants == {"copy", "hybrid", "borrow"}
Insts == Variants \X Built
Scalar == {"scalar"} \X Built
AllInsts == Insts \cup Scalar
AllPairs == GKeys \X AKeys

VARIABLES
    kind,       \* "set": the collections are BilevelSets; "map": BilevelMaps;
                \* "text": the caller builds a text::BilevelSet
    cap,        \* the Capacity the with_capacity collections were built with
    cset, hset, bset,   \* copy / hybrid / borrow BilevelSet, by how it was built
    cmap, hmap, bmap,   \* copy / hybrid / borrow BilevelMap, by how it was built
    sset, smap,         \* scalar BilevelSet / BilevelMap, by how it was built
    ret,        \* what the last insert returned, per collection
    obs,        \* the payload the last add_or_get handle showed, per collection
    last,       \* <<g, k, n>>: the last call's pair and the number of earlier calls for it
    count,      \* the number of calls made so far for each pair
    order,      \* the distinct aggregation keys passed so far, in first-seen order
    ncalls,     \* the number of calls made so far
    iterOf,     \* the collection a live iterator borrows, <<>> if none; with a
                \* third component "owned" the iterator has consumed it
    iter,       \* the live iterator
    yielded,    \* the items the live iterator has yielded so far
    nout,       \* how many items it has yielded
    runs,       \* their group keys in order, one entry per run of equal keys
    done,       \* the live iterator has returned None
    pivoted,    \* {[src, set, back]}: the result of a pivot() not yet dropped,
                \* and in back the result of pivot() on it, if that was called
    aborted     \* a call has panicked and unwound the caller

vars == <<kind, cap, cset, hset, bset, cmap, hmap, bmap, ret, obs, last, count,
          order, ncalls, iterOf, iter, yielded, nout, runs, done, pivoted,
          sset, smap, aborted>>

colls == <<cset, hset, bset, cmap, hmap, bmap, sset, smap>>
calls == <<ret, obs, last, count, order, ncalls>>
iters == <<iterOf, iter, yielded, nout, runs, done>>

Range(f) == { f[x] : x \in DOMAIN f }

Init ==
    /\ kind \in {"set", "map", "text"}
    /\ cap \in Capacities
    /\ cset = [b \in Built |-> IF b = "new" THEN CopySetNew
                               ELSE CopySetWithCapacity(cap.groups, cap.per_group)]
    /\ hset = [b \in Built |-> IF b = "new" THEN HybridSetNew
                               ELSE HybridSetWithCapacity(cap)]
    /\ bset = [b \in Built |-> IF b = "new" THEN BorrowSetNew
                               ELSE BorrowSetWithCapacity(cap)]
    /\ cmap = [b \in Built |-> IF b = "new" THEN CopyMapNew
                               ELSE CopyMapWithCapacity(cap.groups, cap.per_group)]
    /\ hmap = [b \in Built |-> IF b = "new" THEN HybridMapNew
                               ELSE HybridMapWithCapacity(cap)]
    /\ bmap = [b \in Built |-> IF b = "new" THEN BorrowMapNew
                               ELSE BorrowMapWithCapacity(cap)]
    /\ sset = [b \in Built |-> IF b = "new" THEN ScalarSetNew
                               ELSE ScalarSetWithCapacity(cap.groups, cap.per_group)]
    /\ smap = [b \in Built |-> IF b = "new" THEN ScalarMapNew(DefaultV)
                               ELSE ScalarMapWithCapacity(cap.groups, cap.per_group,
                                                          DefaultV)]
    /\ aborted = FALSE
    /\ ret = [i \in AllInsts |-> FALSE]
    /\ obs = [i \in AllInsts |-> 0]
    /\ last = <<>>
    /\ count = [p \in AllPairs |-> 0]
    /\ order = <<>>
    /\ ncalls = 0
    /\ iterOf = <<>>
    /\ iter = NoIter
    /\ yielded = {}
    /\ nout = 0
    /\ runs = <<>>
    /\ done = FALSE
    /\ pivoted = {}

\* what the caller's sequence of calls looks like after one more call (g, k)
Called(g, k) ==
    /\ last' = <<g, k, count[<<g, k>>]>>
    /\ count' = [count EXCEPT ![<<g, k>>] = @ + 1]
    /\ order' = IF k \in Range(order) THEN order ELSE Append(order, k)
    /\ ncalls' = ncalls + 1

\* test_set: the pair (g, k) is inserted into every set
Insert(g, k) ==
    /\ kind = "set"
    /\ ncalls < MaxCalls
    /\ iterOf = <<>>
    /\ pivoted = {}
    /\ LET c == [b \in Built |-> CopySetInsert(cset[b], g, k)]
           h == [b \in Built |-> HybridSetInsert(hset[b], g, k)]
           w == [b \in Built |-> BorrowSetInsert(bset[b], g, k)]
           z == [b \in Built |-> ScalarSetInsert(sset[b], g, k)]
       IN  /\ cset' = [b \in Built |-> c[b].set]
           /\ hset' = [b \in Built |-> h[b].set]
           /\ bset' = [b \in Built |-> w[b].set]
           /\ sset' = [b \in Built |-> z[b].set]
           /\ ret' = [i \in AllInsts |->
                        CASE i[1] = "copy"   -> c[i[2]].ret
                          [] i[1] = "hybrid" -> h[i[2]].ret
                          [] i[1] = "borrow" -> w[i[2]].ret
                          [] i[1] = "scalar" -> z[i[2]].ret]
    /\ Called(g, k)
    /\ UNCHANGED <<kind, cap, cmap, hmap, bmap, smap, obs, iters, pivoted, aborted>>

\* test_map: add_or_get(g, k) on every map, the payload behind the handle
\* is read and then incremented
AddOrGet(g, k) ==
    /\ kind = "map"
    /\ ncalls < MaxCalls
    /\ iterOf = <<>>
    /\ LET c == [b \in Built |-> CopyMapAddOrGet(cmap[b], g, k)]
           h == [b \in Built |-> HybridMapAddOrGet(hmap[b], g, k)]
           w == [b \in Built |-> BorrowMapAddOrGet(bmap[b], g, k)]
           z == [b \in Built |-> ScalarMapAddOrGet(smap[b], g, k)]
           seen == [i \in AllInsts |->
                        CASE i[1] = "copy"   -> CopyMapDeref(c[i[2]].map, c[i[2]].handle)
                          [] i[1] = "hybrid" -> HybridMapDeref(h[i[2]].map, h[i[2]].handle)
                          [] i[1] = "borrow" -> BorrowMapDeref(w[i[2]].map, w[i[2]].handle)
                          [] i[1] = "scalar" -> ScalarMapDeref(z[i[2]].map, z[i[2]].handle)]
       IN  /\ obs' = seen
           /\ cmap' = [b \in Built |->
                         CopyMapStore(c[b].map, c[b].handle, seen[<<"copy", b>>] + 1)]
           /\ hmap' = [b \in Built |->
                         HybridMapStore(h[b].map, h[b].handle, seen[<<"hybrid", b>>] + 1)]
           /\ bmap' = [b \in Built |->
                         BorrowMapStore(w[b].map, w[b].handle, seen[<<"borrow", b>>] + 1)]
           /\ smap' = [b \in Built |->
                         ScalarMapStore(z[b].map, z[b].handle, seen[<<"scalar", b>>] + 1)]
    /\ Called(g, k)
    /\ UNCHANGED <<kind, cap, cset, hset, bset, sset, ret, iters, pivoted, aborted>>

\* the collection a name stands for
Coll(i) ==
    CASE kind = "set" /\ i[1] = "copy"   -> cset[i[2]]
      [] kind = "set" /\ i[1] = "hybrid" -> hset[i[2]]
      [] kind = "set" /\ i[1] = "borrow" -> bset[i[2]]
      [] kind = "map" /\ i[1] = "copy"   -> cmap[i[2]]
      [] kind = "map" /\ i[1] = "hybrid" -> hmap[i[2]]
      [] kind = "map" /\ i[1] = "borrow" -> bmap[i[2]]

\* the iterators iter() on the collection i can return
IterStart(i) ==
    CASE kind = "set" /\ i[1] = "copy"   -> { CopySetIter(Coll(i)) }
      [] kind = "set" /\ i[1] = "hybrid" -> { HybridSetIter(Coll(i)) }
      [] kind = "set" /\ i[1] = "borrow" -> BorrowSetIter(Coll(i))
      [] kind = "map" /\ i[1] = "copy"   -> { CopyMapIter(Coll(i)) }
      [] kind = "map" /\ i[1] = "hybrid" -> { HybridMapIter(Coll(i)) }
      [] kind = "map" /\ i[1] = "borrow" -> BorrowMapIter(Coll(i))

\* next() on the live iterator
IterStep ==
    CASE kind = "set" /\ iterOf[1] = "copy"   -> CopySetIterNext(Coll(iterOf), iter)
      [] kind = "set" /\ iterOf[1] = "hybrid" -> HybridSetIterNext(Coll(iterOf), iter)
      [] kind = "set" /\ iterOf[1] = "borrow" -> BorrowSetIterNext(Coll(iterOf), iter)
      [] kind = "map" /\ iterOf[1] = "copy"   -> CopyMapIterNext(Coll(iterOf), iter)
      [] kind = "map" /\ iterOf[1] = "hybrid" -> HybridMapIterNext(Coll(iterOf), iter)
      [] kind = "map" /\ iterOf[1] = "borrow" -> BorrowMapIterNext(Coll(iterOf), iter)

\* The caller leaves its loop of calls: what the last call returned (in_a,
\* in_b of test_set / test_map) goes out of scope.
LoopEnd ==
    /\ last # <<>>
    /\ ret' = [x \in AllInsts |-> FALSE]
    /\ obs' = [x \in AllInsts |-> 0]
    /\ last' = <<>>
    /\ UNCHANGED <<kind, cap, colls, count, order, ncalls, iters, pivoted, aborted>>

\* iter() on the collection i, outside the loop of calls
IterNew(i) ==
    /\ kind \in {"set", "map"}
    /\ last = <<>>
    /\ iterOf = <<>>
    /\ pivoted = {}
    /\ iterOf' = i
    /\ iter' \in IterStart(i)
    /\ yielded' = {}
    /\ nout' = 0
    /\ runs' = <<>>
    /\ done' = FALSE
    /\ UNCHANGED <<kind, cap, colls, calls, pivoted, aborted>>

\* the caller's view of the item stream: the items, their number, and the
\* group key of each run of items with the same group key
Yield(item) ==
    /\ yielded' = yielded \cup {item}
    /\ nout' = nout + 1
    /\ runs' = IF runs # <<>> /\ runs[Len(runs)] = item[1] THEN runs
               ELSE Append(runs, item[1])

IterNext ==
    /\ iterOf # <<>>
    /\ ~done
    /\ \E r \in IterStep :
          /\ iter' = r.it
          /\ IF r.item = {}
             THEN done' = TRUE /\ UNCHANGED <<yielded, nout, runs>>
             ELSE done' = FALSE /\ Yield(CHOOSE x \in r.item : TRUE)
    /\ UNCHANGED <<kind, cap, colls, calls, iterOf, pivoted, aborted>>

\* a.iter().collect() has finished on the copy collection i and
\* a.into_iter() follows, as in test_set / test_map: the collection is
\* moved into the new iterator
IntoIter(i) ==
    /\ iterOf = i
    /\ done
    /\ i[1] = "copy"
    /\ iterOf' = <<i[1], i[2], "owned">>
    /\ iter' = IF kind = "set" THEN CopySetIntoIter(Coll(i)) ELSE CopyMapIntoIter(Coll(i))
    /\ yielded' = {}
    /\ nout' = 0
    /\ runs' = <<>>
    /\ done' = FALSE
    /\ UNCHANGED <<kind, cap, colls, calls, pivoted, aborted>>

\* the iterator goes out of scope, the collection it borrowed is free again
IterDrop ==
    /\ iterOf # <<>>
    /\ Len(iterOf) = 2
    /\ iterOf' = <<>>
    /\ iter' = NoIter
    /\ yielded' = {}
    /\ nout' = 0
    /\ runs' = <<>>
    /\ done' = FALSE
    /\ UNCHANGED <<kind, cap, colls, calls, pivoted, aborted>>

\* pivot() on a copy or a borrow set, outside the loop of calls
Pivot(i) ==
    /\ kind = "set"
    /\ last = <<>>
    /\ i[1] \in {"copy", "borrow"}
    /\ iterOf = <<>>
    /\ pivoted = {}
    /\ \/ /\ i[1] = "copy"
          /\ \E tr \in CopySetCollect(cset[i[2]], CopySetIter(cset[i[2]])) :
                pivoted' = { [src |-> i, set |-> CopySetPivot(cset[i[2]], tr),
                               back |-> {}] }
       \/ /\ i[1] = "borrow"
          /\ \E it \in BorrowSetIter(bset[i[2]]) :
             \E tr \in BorrowSetCollect(bset[i[2]], it) :
                pivoted' = { [src |-> i, set |-> BorrowSetPivot(bset[i[2]], tr),
                               back |-> {}] }
    /\ UNCHANGED <<kind, cap, colls, calls, iters, aborted>>

\* pivot() on the pivoted set: s.pivot().pivot()
PivotAgain ==
    /\ \E p \in pivoted :
          /\ p.back = {}
          /\ \/ /\ p.src[1] = "copy"
                /\ \E tr \in CopySetCollect(p.set, CopySetIter(p.set)) :
                      pivoted' = { [p EXCEPT !.back = {CopySetPivot(p.set, tr)}] }
             \/ /\ p.src[1] = "borrow"
                /\ \E it \in BorrowSetIter(p.set) :
                   \E tr \in BorrowSetCollect(p.set, it) :
                      pivoted' = { [p EXCEPT !.back = {BorrowSetPivot(p.set, tr)}] }
    /\ UNCHANGED <<kind, cap, colls, calls, iters, aborted>>

\* the pivoted set goes out of scope
PivotDrop ==
    /\ pivoted # {}
    /\ pivoted' = {}
    /\ UNCHANGED <<kind, cap, colls, calls, iters, aborted>>

\* the caller builds a text::BilevelSet with new(); a panic unwinds it
TextNew ==
    /\ kind = "text"
    /\ ~aborted
    /\ aborted' = TextSetNew.panics
    /\ UNCHANGED <<kind, cap, colls, calls, iters, pivoted>>

\* the caller builds a text::BilevelSet with with_capacity(cap)
TextWithCapacity ==
    /\ kind = "text"
    /\ ~aborted
    /\ aborted' = TextSetWithCapacity(cap).panics
    /\ UNCHANGED <<kind, cap, colls, calls, iters, pivoted>>

Next ==
    \/ \E g \in GKeys, k \in AKeys : Insert(g, k)
    \/ \E g \in GKeys, k \in AKeys : AddOrGet(g, k)
    \/ LoopEnd
    \/ \E i \in Insts : IterNew(i)
    \/ IterNext
    \/ \E i \in Insts : IntoIter(i)
    \/ IterDrop
    \/ \E i \in Insts : Pivot(i)
    \/ PivotAgain
    \/ PivotDrop
    \/ TextNew
    \/ TextWithCapacity

Spec == Init /\ [][Next]_vars

\* --------------------------------------------------------------- claims
\* the pairs passed to some call so far
Seen == { p \in AllPairs : count[p] > 0 }

\* the items of a traversal are grouped: no group key starts a second run,
\* that is, none comes back once an item of another group has followed it
Contiguous(rs) == \A a, b \in 1..Len(rs) : rs[a] = rs[b] => a = b

\* the pairs a set holds, by name
SetPairs(i) ==
    CASE i[1] = "copy"   -> CopySetPairs(cset[i[2]])
      [] i[1] = "hybrid" -> HybridSetPairs(hset[i[2]])
      [] i[1] = "borrow" -> BorrowSetPairs(bset[i[2]])

\* the (g, k, payload) triples a map holds, by name
MapTriples(i) ==
    CASE i[1] = "copy"   -> CopyMapTriples(cmap[i[2]])
      [] i[1] = "hybrid" -> HybridMapTriples(hmap[i[2]])
      [] i[1] = "borrow" -> BorrowMapTriples(bmap[i[2]])

\* the key arena of an interning collection, by name
KeysOf(i) ==
    CASE kind = "map" /\ i[1] = "hybrid" -> hmap[i[2]].keys
      [] kind = "map" /\ i[1] = "borrow" -> bmap[i[2]].keys
      [] kind # "map" /\ i[1] = "hybrid" -> hset[i[2]].keys
      [] kind # "map" /\ i[1] = "borrow" -> bset[i[2]].keys

Interning == {"hybrid", "borrow"} \X Built

\* C1: insert(g, k) returns false exactly when the same pair (g, k) was
\* passed to an earlier insert of the sequence, and true otherwise.
C1_InsertFalseIffSeenBefore ==
    (kind = "set" /\ last # <<>>) =>
        \A i \in Insts : ret[i] = (last[3] = 0)

\* a pair inserted for the second time, after a pair sharing only one of
\* its two keys was inserted
C1_Witness ==
    /\ kind = "set" /\ last # <<>> /\ last[3] = 1
    /\ \A i \in Insts : ~ret[i]
    /\ \E p \in Seen : (p[1] = last[1]) # (p[2] = last[2])

\* C2: a full traversal of a set's iter() yields every distinct inserted
\* pair exactly once and nothing else: as many items as distinct pairs.
C2_IterYieldsDistinctPairsOnce ==
    (kind = "set" /\ done) =>
        /\ yielded = Seen
        /\ nout = Cardinality(Seen)

\* a completed traversal after calls that repeated a pair
C2_Witness ==
    /\ kind = "set" /\ done
    /\ nout >= 2
    /\ ncalls > nout

\* C3: in every completed traversal of a set's or a map's iter(), the items
\* of one group key are consecutive.
C3_GroupsContiguous == done => Contiguous(runs)

\* a completed traversal over two groups, one of them with two items
C3_Witness ==
    /\ done
    /\ nout = 3
    /\ Len(runs) = 2

\* C4: the handle add_or_get(g, k) returns shows the default payload on the
\* first call for the pair, and afterwards the value the earlier calls left:
\* with an increment after each call, the number of earlier calls.
C4_AddOrGetShowsStoredPayload ==
    (kind = "map" /\ last # <<>>) =>
        \A i \in Insts : obs[i] = IF last[3] = 0 THEN DefaultV ELSE last[3]

\* the third add_or_get of one pair
C4_Witness ==
    /\ kind = "map" /\ last # <<>> /\ last[3] = 2
    /\ \A i \in Insts : obs[i] = 2

\* C5: (k, g) is in pivot() exactly when (g, k) is in the source.
C5_PivotSwapsPairs ==
    \A p \in pivoted :
        LET pairs == IF p.src[1] = "copy" THEN CopySetPairs(p.set)
                     ELSE BorrowSetPairs(p.set)
        IN  { <<q[2], q[1]>> : q \in pairs } = SetPairs(p.src)

\* the pivot of a borrow set of three pairs, not symmetric
C5_Witness ==
    \E p \in pivoted :
        /\ p.src[1] = "borrow"
        /\ Cardinality(SetPairs(p.src)) = 3
        /\ \E q \in SetPairs(p.src) : <<q[2], q[1]>> \notin SetPairs(p.src)

\* C6: after add_or_get calls each followed by an increment, a map's iter()
\* yields one (g, k, v) per distinct pair, v the number of calls for the pair.
C6_MapIterYieldsCallCounts ==
    (kind = "map" /\ done) =>
        /\ yielded = { <<p[1], p[2], count[p]>> : p \in Seen }
        /\ nout = Cardinality(Seen)

\* a completed traversal showing a pair called twice and a pair called once
C6_Witness ==
    /\ kind = "map" /\ done
    /\ \E x, y \in yielded : x[3] = 2 /\ y[3] = 1

C8_VariantsAgree ==
    kind = "set" =>
        /\ \A b \in Built :
              /\ ret[<<"hybrid", b>>] = ret[<<"copy", b>>]
              /\ ret[<<"borrow", b>>] = ret[<<"copy", b>>]
              /\ SetPairs(<<"hybrid", b>>) = SetPairs(<<"copy", b>>)
              /\ SetPairs(<<"borrow", b>>) = SetPairs(<<"copy", b>>)
        /\ done => /\ \A v \in Variants : yielded = SetPairs(<<v, iterOf[2]>>)
                   /\ Contiguous(runs)

\* a completed traversal of a hybrid set holding three pairs
C8_Witness ==
    /\ kind = "set" /\ done
    /\ iterOf[1] = "hybrid"
    /\ nout = 3 /\ Len(runs) = 2

\* C9: the key arena of a hybrid or borrow collection holds no value twice,
\* and is as long as the number of distinct aggregation keys passed so far.
C9_OneSlotPerKey ==
    LET passed == Cardinality({ p[2] : p \in Seen })
    IN  \A i \in Interning :
            LET keys == KeysOf(i)
            IN  /\ \A a, b \in 1..Len(keys) : keys[a] = keys[b] => a = b
                /\ Len(keys) = passed

\* two distinct keys in the arena after a key was passed again
C9_Witness ==
    /\ ncalls = 3
    /\ \A i \in Interning : Len(KeysOf(i)) = 2

\* C10: the n-th distinct aggregation key passed is stored at index n - 1,
\* and an index that holds a key holds the same key after every step.
C10_IndicesDenseFirstSeenStable ==
    [][ \A i \in Interning :
          LET before == KeysOf(i)
              after  == KeysOf(i)'
          IN  /\ Len(after) = Len(order')
              /\ \A n \in 1..Len(order') : KeyAt(after, n - 1) = order'[n]
              /\ \A n \in 0..(Len(before) - 1) :
                    /\ n < Len(after)
                    /\ KeyAt(after, n) = KeyAt(before, n) ]_vars

\* two keys in the arena, the larger one passed first
C10_Witness ==
    /\ Len(order) = 2 /\ order[1] > order[2]
    /\ \A i \in Interning : KeysOf(i) = order

\* the pairs a collection holds, by name, payloads left out
Pairs(i) ==
    IF kind = "map" THEN { <<t[1], t[2]>> : t \in MapTriples(i) } ELSE SetPairs(i)

\* the number of entries of a collection's group table, by name
NumGroups(i) ==
    CASE i[1] = "copy"   -> Cardinality(DOMAIN Coll(i).data)
      [] i[1] = "hybrid" -> Cardinality(DOMAIN Coll(i).groups)
      [] i[1] = "borrow" -> Cardinality(Coll(i).groups)

\* what a group's index set or payload map holds: keys in the copy variant,
\* arena indices in the others
Members(inner) == IF kind = "map" THEN DOMAIN inner ELSE inner

\* the members of every group of a collection, by name
GroupMembers(i) ==
    CASE i[1] = "copy"   -> [g \in DOMAIN Coll(i).data |-> Members(Coll(i).data[g])]
      [] i[1] = "hybrid" -> [g \in DOMAIN Coll(i).groups |-> Members(Coll(i).groups[g])]
      [] i[1] = "borrow" ->
            [g \in { e[1] : e \in Coll(i).groups } |->
                UNION { Members(e[2]) : e \in { x \in Coll(i).groups : x[1] = g } }]

\* C11: the collections only grow: at every step a pair that is present
\* stays present, and the number of groups, the length of the key arena and
\* the size of every group's index set or payload map do not decrease.
C11_OnlyGrows ==
    [][ \/ UNCHANGED colls
        \/ \A i \in Insts :
              /\ Pairs(i) \subseteq Pairs(i)'
              /\ NumGroups(i)' >= NumGroups(i)
              /\ i \in Interning => Len(KeysOf(i)') >= Len(KeysOf(i))
              /\ \A g \in DOMAIN GroupMembers(i) :
                    /\ g \in DOMAIN GroupMembers(i)'
                    /\ Cardinality(GroupMembers(i)'[g]) >=
                           Cardinality(GroupMembers(i)[g]) ]_vars

\* three calls, one of them a repeat, have left one group of two pairs
C11_Witness ==
    /\ kind \in {"set", "map"} /\ ncalls = 3
    /\ \A i \in Insts : NumGroups(i) = 1 /\ Cardinality(Pairs(i)) = 2

\* the items a traversal of the collection i yields: pairs, or triples
Items(i) == IF kind = "map" THEN MapTriples(i) ELSE SetPairs(i)

\* C12: iter() does not consume: no step of a traversal changes a
\* collection, and every completed traversal, be it the first iter(), a
\* later iter() or the into_iter() that follows one, yields the pairs (and
\* payloads) the collection holds, each once and grouped.
C12_IterRepeatable ==
    /\ [](done => /\ yielded = Items(iterOf)
                  /\ nout = Cardinality(Items(iterOf))
                  /\ Contiguous(runs))
    /\ [][(iterOf # <<>> \/ iterOf' # <<>>) => UNCHANGED colls]_vars

\* into_iter() has completed after a completed iter() on the same copy
\* collection of two groups and three pairs
C12_Witness ==
    /\ done
    /\ Len(iterOf) = 3
    /\ nout = 3 /\ Len(runs) = 2

\* C13: every operation completes: no call of new, with_capacity, insert or
\* iter on any BilevelSet, core::BilevelSet and text::BilevelSet included,
\* aborts.
C13_NeverAborts == ~aborted

\* C14: the scalar BilevelSet::insert(g, k) returns true if the pair (g, k)
\* was already present in the collection.
C14_ScalarInsertTrueIfPresent ==
    (kind = "set" /\ last # <<>> /\ last[3] > 0) => \A i \in Scalar : ret[i]

\* C15: key resolution allocates on a miss only: a call whose aggregation
\* key is already in the arena leaves the arena and the key table as they
\* are, makes no owned copy of the key and files the pair under the index
\* the key already has; after any calls, the owned copies made of
\* aggregation keys are as many as the distinct keys passed.
C15_KeyAllocatedOnlyOnMiss ==
    [][ \/ UNCHANGED colls
        \/ \A i \in Interning :
              LET before == Coll(i)
                  after  == Coll(i)'
                  g      == last'[1]
                  k      == last'[2]
              IN  /\ after.k_clones = Len(order')
                  /\ k \in Range(before.keys) =>
                        /\ after.keys = before.keys
                        /\ after.key_table = before.key_table
                        /\ after.k_clones = before.k_clones
                        /\ \E n \in 0..(Len(before.keys) - 1) :
                              /\ KeyAt(before.keys, n) = k
                              /\ n \in GroupMembers(i)'[g] ]_vars

\* a second group has received a key the arena already held
C15_Witness ==
    /\ kind \in {"set", "map"} /\ ncalls = 2 /\ Cardinality(Seen) = 2
    /\ \A i \in Interning : Coll(i).k_clones = 1 /\ Len(Coll(i).keys) = 1

\* the borrow collections in use, by how they were built
BorrowColl(b) == IF kind = "map" THEN bmap[b] ELSE bset[b]

\* C16: in the borrow variant the owned copies made of group keys are as
\* many as the distinct group keys passed, so a call for an existing group
\* makes none, and the group table has exactly one entry for each of them.
C16_GroupClonedOncePerGroup ==
    LET passed == { p[1] : p \in Seen }
        n      == Cardinality(passed)
    IN  \A b \in Built :
            LET s == BorrowColl(b)
            IN  /\ s.g_clones = n
                /\ Cardinality(s.groups) = n
                /\ \A g \in passed : Cardinality({ e \in s.groups : e[1] = g }) = 1

\* three calls over two groups, one group called twice
C16_Witness ==
    /\ kind \in {"set", "map"} /\ ncalls = 3
    /\ Cardinality({ p[1] : p \in Seen }) = 2
    /\ \A b \in Built : BorrowColl(b).g_clones = 2

\* a map, by name, the scalar maps included
MapOf(i) ==
    CASE i[1] = "copy"   -> cmap[i[2]]
      [] i[1] = "hybrid" -> hmap[i[2]]
      [] i[1] = "borrow" -> bmap[i[2]]
      [] i[1] = "scalar" -> smap[i[2]]

\* the (g, k, payload) triples a map holds, by name, the scalar maps included
AllMapTriples(i) ==
    IF i[1] = "scalar" THEN ScalarMapTriples(smap[i[2]]) ELSE MapTriples(i)

\* C17: a map holds exactly one payload per distinct pair passed; the
\* default producer (V::default, or the constructor of the scalar map) has
\* run once per distinct pair, so never for a pair that was present; and
\* add_or_get on an existing pair shows the payload left there, not a
\* fresh default.
C17_OnePayloadPerPairNeverReset ==
    kind = "map" =>
        LET seen == Seen
            n    == Cardinality(seen)
        IN  \A i \in AllInsts :
                LET triples == AllMapTriples(i)
                IN  /\ MapOf(i).defaults = n
                    /\ { <<t[1], t[2]>> : t \in triples } = seen
                    /\ Cardinality(triples) = n
                    /\ \A t \in triples : t[3] = count[<<t[1], t[2]>>]
                    /\ (last # <<>> /\ last[3] > 0) => obs[i] = last[3]

\* the second add_or_get of one pair, after a call for another pair
C17_Witness ==
    /\ kind = "map" /\ ncalls = 3 /\ last # <<>> /\ last[3] = 1
    /\ \A i \in AllInsts : MapOf(i).defaults = 2 /\ obs[i] = 1

\* the distinct group keys and the distinct aggregation keys of a set
GroupsIn(pairs) == { q[1] : q \in pairs }
AggKeysIn(pairs) == { q[2] : q \in pairs }

\* C18: pivot() pre-sizes the new set with the source's counts swapped, in
\* every variant that has pivot: its group-count hint is the source's number
\* of distinct aggregation keys, its distinct-key hint the source's number
\* of distinct groups, its per-group hint the source's per-group hint.
C18_PivotHintsSwapped ==
    \A p \in pivoted :
        LET src == SetPairs(p.src)
        IN  IF p.src[1] = "copy"
            THEN /\ p.set.data_cap = Cardinality(AggKeysIn(src))
                 /\ p.set.per_group = cset[p.src[2]].per_group
            ELSE /\ p.set.groups_cap = Cardinality(AggKeysIn(src))
                 /\ p.set.keys_cap = Cardinality(GroupsIn(src))
                 /\ p.set.key_table_cap = Cardinality(GroupsIn(src))
                 /\ p.set.per_group = bset[p.src[2]].per_group

\* C18, amended: the borrow pivot() swaps the counts as stated; the copy
\* pivot(), which has no count of distinct aggregation keys, takes the
\* source's number of groups as the group-count hint; both keep the
\* per-group hint.
C18_PivotHints ==
    \A p \in pivoted :
        LET src == SetPairs(p.src)
        IN  IF p.src[1] = "copy"
            THEN /\ p.set.data_cap = Cardinality(GroupsIn(src))
                 /\ p.set.per_group = cset[p.src[2]].per_group
            ELSE /\ p.set.groups_cap = Cardinality(AggKeysIn(src))
                 /\ p.set.keys_cap = Cardinality(GroupsIn(src))
                 /\ p.set.key_table_cap = Cardinality(GroupsIn(src))
                 /\ p.set.per_group = bset[p.src[2]].per_group

\* the pivot of a copy set of one group with two keys
C18_Witness ==
    \E p \in pivoted :
        /\ p.src[1] = "copy"
        /\ Cardinality(GroupsIn(SetPairs(p.src))) = 1
        /\ Cardinality(AggKeysIn(SetPairs(p.src))) = 2
        /\ p.set.data_cap = 1
        /\ Cardinality(DOMAIN p.set.data) = 2

\* every index of the collection s is a position of its arena, and its key
\* table holds the positions of the arena, each once
IndicesInBounds(s, members) ==
    /\ \A n \in members : n >= 0 /\ n < Len(s.keys)
    /\ Len(s.key_table) = Len(s.keys)
    /\ Range(s.key_table) = 0..(Len(s.keys) - 1)

\* C19: in every reachable state of a hybrid or borrow collection, and of a
\* pivoted borrow set, every index stored in a group is smaller than the
\* arena length and the key table holds exactly the indices 0..keys.len()-1,
\* each once: no keys[i] of insert, add_or_get or iter is out of bounds.
C19_IndicesInBounds ==
    /\ kind \in {"set", "map"} =>
          \A i \in Interning :
              IndicesInBounds(Coll(i), UNION Range(GroupMembers(i)))
    /\ \A p \in pivoted :
          p.src[1] = "borrow" =>
              IndicesInBounds(p.set, UNION { e[2] : e \in p.set.groups })

\* two keys in the arena, both indices used by one group, the first key
\* passed again
C19_Witness ==
    /\ kind \in {"set", "map"} /\ ncalls = 3
    /\ \A i \in Interning :
          /\ Coll(i).key_table = <<0, 1>>
          /\ \E g \in DOMAIN GroupMembers(i) : GroupMembers(i)[g] = {0, 1}

\* what a caller can observe of a set: its groups with their index sets, and
\* for an interning set the arena and the key table
Observable(s) ==
    IF "data" \in DOMAIN s THEN <<s.data>> ELSE <<s.keys, s.key_table, s.groups>>

\* C20: an insert that returns false, and so every insert of a pair that
\* was inserted before, changes nothing a caller can observe of the set:
\* inserting a pair again has the effect of inserting it once.
C20_FalseInsertChangesNothing ==
    [][ (kind = "set" /\ ncalls' = ncalls + 1) =>
          \A i \in Insts :
              (~ret'[i] \/ last'[3] > 0) => Observable(Coll(i)') = Observable(Coll(i)) ]_vars

\* one pair inserted three times: one group, one key
C20_Witness ==
    /\ kind = "set" /\ last # <<>> /\ last[3] = 2
    /\ \A i \in Insts : ~ret[i] /\ NumGroups(i) = 1 /\ Cardinality(SetPairs(i)) = 1

\* C21: add_or_get(g, k), and the write through the handle it returns,
\* change the payload of no other pair: every pair other than (g, k),
\* also one of the group g or one filed under the index of k in another
\* group, has the payload after the call that it had before.
C21_AddOrGetLeavesOtherPayloads ==
    [][ (kind = "map" /\ ncalls' = ncalls + 1) =>
          \A i \in AllInsts :
              \A t \in AllMapTriples(i) :
                  <<t[1], t[2]>> # <<last'[1], last'[2]>> => t \in AllMapTriples(i)' ]_vars

\* a first call for (g, k) after a call for another key of the group g and
\* a call for the key k in another group, whose payloads are still 1
C21_Witness ==
    /\ kind = "map" /\ last # <<>> /\ last[3] = 0 /\ ncalls = 3
    /\ \E p, q \in Seen :
          /\ p[1] = last[1] /\ p[2] # last[2]
          /\ q[1] # last[1] /\ q[2] = last[2]
          /\ \A i \in AllInsts :
                {<<p[1], p[2], 1>>, <<q[1], q[2], 1>>} \subseteq AllMapTriples(i)

\* the pairs a pivoted set holds, of the variant of its source
PivotPairs(v, s) == IF v = "copy" THEN CopySetPairs(s) ELSE BorrowSetPairs(s)

\* the number of groups of a pivoted set
PivotGroups(v, s) ==
    IF v = "copy" THEN Cardinality(DOMAIN s.data) ELSE Cardinality(s.groups)

\* C22: pivot is an involution on the pairs and leaves its source alone:
\* s.pivot().pivot() holds the pairs of s, s.pivot() has as many groups as s
\* has distinct aggregation keys, and no pivot() changes the pairs of a set.
C22_PivotInvolution ==
    /\ [](\A p \in pivoted :
            /\ PivotGroups(p.src[1], p.set) = Cardinality(AggKeysIn(SetPairs(p.src)))
            /\ \A b \in p.back :
                  /\ PivotPairs(p.src[1], b) = SetPairs(p.src)
                  /\ PivotPairs(p.src[1], b) = Seen)
    /\ [][pivoted' # pivoted => \A i \in Insts : SetPairs(i)' = SetPairs(i)]_vars

\* s.pivot().pivot() of a borrow set of two pairs whose pivot has another
\* number of groups than it has
C22_Witness ==
    \E p \in pivoted :
        /\ p.src[1] = "borrow"
        /\ p.back # {}
        /\ Cardinality(SetPairs(p.src)) = 2
        /\ PivotGroups("borrow", p.set) # Cardinality(bset[p.src[2]].groups)

====
